---- MODULE Spec2Model ----
(***************************************************************************)
(* A model of the MLS_Soccer pipeline: the paginated fetcher and the       *)
(* lookup cache of sportmonk.py, and the table builders and the table      *)
(* writer of data_normalizer.py.                                           *)
(*                                                                         *)
(* Each part of the program has its own specification over the variables   *)
(* it uses; the variables of the other parts stay at their idle values.    *)
(*   SpecFetch   paginated_results against a page-serving API              *)
(*   SpecTable   fixture_table on one fixture record                       *)
(*   SpecDedupe  remove_duplicates on a file of any content                *)
(*   SpecFile    appends to one table file, each followed by the dedupe    *)
(*   SpecLookup  update_lookup and read_lookup on the persisted cache      *)
(*   SpecEnrich  the three lookup passes over one fixture record           *)
(***************************************************************************)
EXTENDS Integers, Sequences, FiniteSets, TLC

VARIABLES
    \* ---- paginated_results (sportmonk.py) ----
    server,      \* the pages the API holds for the requested endpoint
    has_pages,   \* whether the API's envelope carries a pagination object
    all_r,       \* the local list all_r: the envelopes received so far
    pagination,  \* the local pagination: the last next_page link, or null
    requests,    \* the URLs handed to requests.get, in order
    fetch_pc,    \* "loop" | "return" | "done" | "idle"
    result,      \* what paginated_results returned
    \* ---- fixture_table (data_normalizer.py) ----
    data,        \* the fixture record handed to the builder (mutated in place)
    tables,      \* what the builder returned, or the error it raised
    table_pc,    \* "ready" | "done" | "idle"
    \* ---- one table file: write_data, remove_duplicates ----
    file,        \* the file's lines, each with the line ending it has on disk
    file_exists, \* whether the file has been created
    prev_file,   \* the file's lines before the last operation on it
    batch,       \* the data argument of the last write_data call
    appended,    \* every row handed to write_data so far
    dedupe_log,  \* the file before and after each run of remove_duplicates on its own
    \* ---- the lookup cache and the enricher (sportmonk.py) ----
    lookup_file,  \* lookup_files/types.json: the members of its JSON object
    written,      \* the dict last handed to update_lookup
    lookup_pc,    \* "start" | "written" | "read" | "idle": the last cache operation
    TYPES_LOOKUP, \* the module global TYPES_LOOKUP
    game,         \* the fixture record handed to the enricher (mutated in place)
    enrich_err,   \* "none", or the error the enricher raised
    enrich_pc,    \* "ready" | "done" | "idle"
    \* ---- output_data_table and the builders (data_normalizer.py) ----
    COUNTRY_LOOKUP, \* the module global COUNTRY_LOOKUP
    handed,       \* the record as it was handed to the first builder
    fixture,      \* the last call of output_data_table: its arguments and its
                  \* local fixture, what function(data) returned
    files,        \* the files on disk: a function from file name to lines
    prev_files,   \* the files before the last call of output_data_table
    calls,        \* the number of calls of output_data_table so far
    \* ---- download_fixtures_date_range (downloader.py) ----
    games,        \* games['data']: the fetched fixture records (mutated in place)
    fetched,      \* games['data'] as get_fixtures returned it
    taken,        \* the number of fixtures the for loop has taken
    attempts,     \* per fixture taken: its id and how its processing ended
    printed       \* the lines printed by the except clause

fetch_vars == <<server, has_pages, all_r, pagination, requests, fetch_pc, result>>

table_vars == <<data, tables, table_pc>>

file_vars == <<file, file_exists, prev_file, batch, appended, dedupe_log>>

lookup_vars == <<lookup_file, written, lookup_pc>>

enrich_vars == <<TYPES_LOOKUP, game, enrich_err, enrich_pc>>

output_vars == <<COUNTRY_LOOKUP, handed, fixture, files, prev_files, calls>>

download_vars == <<games, fetched, taken, attempts, printed>>

vars == <<fetch_vars, table_vars, file_vars, lookup_vars, enrich_vars,
          output_vars, download_vars>>

\* JSON null where the value is a link (a sequence of URL parts).
NullLink == <<>>

\* Not yet returned.
NoResult == [none |-> TRUE]

(***************************************************************************)
(* Bounds of the model.                                                    *)
(***************************************************************************)
MaxPages == 3

\* How often remove_duplicates is run again on the same file.
MaxDedupeRuns == 2

\* The data arrays a page may hold.
PageData == {<<>>, <<"A", "B">>, <<"B", "A">>, <<"C", "D">>, <<"E">>}

\* The remaining quota a response may report: around the guard's threshold.
Remaining == {2899, 2900, 2901}

(***************************************************************************)
(* The API (the mock server of the spec's property 6).  Page p links to    *)
(* page p + 1; the last page's next_page is null.                          *)
(***************************************************************************)

\* The URL gen_url built, as a sequence of parts, none of which holds "page=".
Url == <<"fixtures", "?api_token", "&timezone">>

\* Page numbers as they are written in a URL, and read back from one.
PageDigits == <<"1", "2", "3", "4", "5", "6">>

PageStr(p) == PageDigits[p]

PageNum(s) == CHOOSE p \in 1..Len(PageDigits) : PageDigits[p] = s

\* The link the API reports for page p: its own URL with a page selector.
PageLink(p) == <<"https://fixtures", "?", "page=", PageStr(p)>>

\* The page a request selects: the number after its last "page=" part, or 1.
RequestedPage(req) ==
    LET at == {i \in 1..Len(req) : req[i] = "page="}
    IN  IF at = {} THEN 1
        ELSE LET last == CHOOSE i \in at : \A j \in at : j <= i
             IN  PageNum(req[last + 1])

\* The envelope the API answers a request with.
Respond(req) ==
    LET p    == RequestedPage(req)
        page == server[p]
        meta == [data         |-> page.data,
                 subscription |-> <<"plan", p>>,
                 rate_limit   |-> [remaining |-> page.remaining],
                 timezone     |-> "America/Chicago"]
        next == IF p < Len(server) THEN PageLink(p + 1) ELSE NullLink
    IN  IF has_pages
        THEN [data         |-> meta.data,
              pagination   |-> [next_page |-> next, current_page |-> p],
              subscription |-> meta.subscription,
              rate_limit   |-> meta.rate_limit,
              timezone     |-> meta.timezone]
        ELSE meta

(***************************************************************************)
(* paginated_results                                                       *)
(***************************************************************************)
QuotaThreshold == 2900

\* str.find: the index of the first "page=" part of the link, 0 when absent.
FindPage(link) ==
    LET at == {i \in 1..Len(link) : link[i] = "page="}
    IN  IF at = {} THEN 0 ELSE CHOOSE i \in at : \A j \in at : i <= j

\* pagination[pagination.find('page='):]; find's -1 slices the last character.
PageSelector(link) ==
    IF FindPage(link) = 0 THEN SubSeq(link, Len(link), Len(link))
    ELSE SubSeq(link, FindPage(link), Len(link))

\* The URL of the next GET.
NextRequest ==
    IF pagination = NullLink THEN Url
    ELSE Url \o <<"&">> \o PageSelector(pagination)

\* r.json().get('pagination', {}).get('next_page')
NextPageOf(r) ==
    IF "pagination" \in DOMAIN r THEN r.pagination.next_page ELSE NullLink

\* A guard that lets the threshold itself pass.
QuotaLowStrict(r) == r.rate_limit.remaining < QuotaThreshold

\* The quota guard of the loop.
QuotaLow(r) == r.rate_limit.remaining <= QuotaThreshold

RECURSIVE ConcatDataNewestFirst(_)
\* A concatenation that puts each later page before the earlier ones.
ConcatDataNewestFirst(pages) ==
    IF pages = <<>> THEN <<>>
    ELSE ConcatDataNewestFirst(Tail(pages)) \o pages[1].data

RECURSIVE ConcatData(_)
\* [typedice for page in all_r for typedice in page['data']]
ConcatData(pages) ==
    IF pages = <<>> THEN <<>>
    ELSE pages[1].data \o ConcatData(Tail(pages))

\* A return statement that rebuilds the envelope whatever the page count.
CombinedAlways(pages) ==
    [data         |-> ConcatData(pages),
     subscription |-> pages[Len(pages)].subscription,
     rate_limit   |-> pages[Len(pages)].rate_limit,
     timezone     |-> pages[Len(pages)].timezone]

\* The return statement of paginated_results.
Combined(pages) ==
    IF Len(pages) > 1
    THEN [data         |-> ConcatData(pages),
          subscription |-> pages[Len(pages)].subscription,
          rate_limit   |-> pages[Len(pages)].rate_limit,
          timezone     |-> pages[Len(pages)].timezone]
    ELSE pages[1]

\* One pass of the while loop: a GET, the append, the two break tests.
FetchPage ==
    /\ fetch_pc = "loop"
    /\ LET r == Respond(NextRequest)
       IN  /\ requests' = Append(requests, NextRequest)
           /\ all_r' = Append(all_r, r)
           /\ pagination' = NextPageOf(r)
           /\ fetch_pc' = IF QuotaLow(r) \/ NextPageOf(r) = NullLink
                          THEN "return" ELSE "loop"
    /\ UNCHANGED <<server, has_pages, result>>
    /\ UNCHANGED <<table_vars, file_vars, lookup_vars, enrich_vars>>
    /\ UNCHANGED <<output_vars, download_vars>>

\* The code after the loop.
FetchReturn ==
    /\ fetch_pc = "return"
    /\ result' = Combined(all_r)
    /\ fetch_pc' = "done"
    /\ UNCHANGED <<server, has_pages, all_r, pagination, requests>>
    /\ UNCHANGED <<table_vars, file_vars, lookup_vars, enrich_vars>>
    /\ UNCHANGED <<output_vars, download_vars>>

(***************************************************************************)
(* data_normalizer.py: dict_lookup, unnest, fixture_table                  *)
(***************************************************************************)

\* Python's None in a row, and the empty dict {}.
None == "None"

EmptyDict == <<>>

\* all([row[arg[0]] == arg[1] for arg in args]); every entry of the model
\* carries the fields it is searched by.
Matches(row, args) == \A k \in 1..Len(args) : row[args[k][1]] = args[k][2]

RECURSIVE DictLookupLast(_, _)
\* A search that keeps going and returns the last matching entry.
DictLookupLast(list_of_dicts, args) ==
    IF list_of_dicts = <<>> THEN EmptyDict
    ELSE LET n == Len(list_of_dicts)
         IN  IF Matches(list_of_dicts[n], args) THEN list_of_dicts[n]
             ELSE DictLookupLast(SubSeq(list_of_dicts, 1, n - 1), args)

RECURSIVE DictLookup(_, _)
\* dict_lookup: the loop returns at the first row meeting every condition.
DictLookup(list_of_dicts, args) ==
    IF list_of_dicts = <<>> THEN EmptyDict
    ELSE IF Matches(Head(list_of_dicts), args) THEN Head(list_of_dicts)
    ELSE DictLookup(Tail(list_of_dicts), args)

\* The fields of the record's entries whose value is itself a dict
\* (type(row[key]) == dict).
DictFields == {"score", "data"}

\* One row of unnest: the keys of its nested dicts are copied to the row
\* itself (row.update(temp_dict)); entries hold at most one nested dict.
UnnestRow(row) ==
    LET nested == {k \in DOMAIN row : k \in DictFields}
        keys   == UNION {DOMAIN row[k] : k \in nested}
    IN  IF keys = {} THEN row
        ELSE [k \in (DOMAIN row) \cup keys |->
                 IF k \in keys
                 THEN row[CHOOSE f \in nested : k \in DOMAIN row[f]][k]
                 ELSE row[k]]

\* unnest
Unnest(nested_dict) == [i \in 1..Len(nested_dict) |-> UnnestRow(nested_dict[i])]

\* dict.get(key, default)
Get(d, key, default) == IF key \in DOMAIN d THEN d[key] ELSE default

\* The record after lines 102-103 of fixture_table.
Unnested(d) ==
    [d EXCEPT !.participants = Unnest(@),
              !.scores       = Unnest(@),
              !.xgfixture    = Unnest(@)]

Participant(d, side) == DictLookup(d.participants, << <<"location", side>> >>)

Formation(d, side) == DictLookup(d.formations, << <<"location", side>> >>)

Score(d, half, side) ==
    DictLookup(d.scores, << <<"description", half>>, <<"participant", side>> >>)

Xg(d, side) == DictLookup(d.xgfixture, << <<"location", side>> >>)

\* .get('score', {'goals': None})['goals']
Goals(d, half, side) == Get(Score(d, half, side), "score", [goals |-> None]).goals

\* The subscripts of fixture_table that raise KeyError on an empty dict:
\* ['id'] (lines 105, 106), ['formation'] (line 115), ['data'] (lines 118, 126).
FixtureTableRaises(d) ==
    \/ "id" \notin DOMAIN Participant(d, "home")
    \/ "id" \notin DOMAIN Participant(d, "away")
    \/ Len(d.formations) > 0 /\ "formation" \notin DOMAIN Formation(d, "home")
    \/ Len(d.xgfixture) > 0 /\ "data" \notin DOMAIN Xg(d, "home")
    \/ Len(d.xgfixture) > 0 /\ "data" \notin DOMAIN Xg(d, "away")

\* The value fixture_table returns for the unnested record d, or its error.
FixtureTable(d) ==
    IF FixtureTableRaises(d)
    THEN [error |-> "KeyError", fixture |-> <<>>, performance |-> <<>>]
    ELSE LET home_team_id == Participant(d, "home").id
             away_team_id == Participant(d, "away").id
         IN  [error   |-> "none",
              fixture |-> <<d.id, d.name, d.venue_id, d.starting_at,
                            d.result_info, home_team_id, away_team_id>>,
              performance |-> <<
                <<d.id, home_team_id,
                  IF Len(d.formations) > 0
                  THEN Formation(d, "home").formation ELSE None,
                  Goals(d, "1ST_HALF", "home"),
                  Goals(d, "2ND_HALF", "home"),
                  IF Len(d.xgfixture) > 0
                  THEN Xg(d, "home").data.value ELSE None,
                  "home">>,
                <<d.id, away_team_id,
                  IF Len(d.formations) > 0
                  THEN Get(Formation(d, "away"), "formation", None) ELSE None,
                  Goals(d, "1ST_HALF", "away"),
                  Goals(d, "2ND_HALF", "away"),
                  IF Len(d.xgfixture) > 0
                  THEN Xg(d, "away").data.value ELSE None,
                  "away">> >>]

NoTables == [error |-> "not called", fixture |-> <<>>, performance |-> <<>>]

\* fixture_table(data): the record is unnested in place, then read.
FixtureTableCall ==
    /\ table_pc = "ready"
    /\ data' = Unnested(data)
    /\ tables' = FixtureTable(Unnested(data))
    /\ table_pc' = "done"
    /\ UNCHANGED <<fetch_vars, file_vars, lookup_vars, enrich_vars>>
    /\ UNCHANGED <<output_vars, download_vars>>

(***************************************************************************)
(* The fixture records the builder is run on.                              *)
(***************************************************************************)
MaxScores == 3

SeqsUpTo(S, n) == UNION {[1..k -> S] : k \in 0..n}

HomeTeam == [id |-> 10, location |-> "home"]

AwayTeam == [id |-> 20, location |-> "away"]

OtherHomeTeam == [id |-> 30, location |-> "home"]

ParticipantLists ==
    {<<HomeTeam, AwayTeam>>, <<AwayTeam, HomeTeam>>,
     <<HomeTeam, OtherHomeTeam, AwayTeam>>, <<HomeTeam>>}

HomeFormation == [location |-> "home", formation |-> "4-4-2"]

AwayFormation == [location |-> "away", formation |-> "3-5-2"]

FormationLists ==
    {<<>>, <<HomeFormation>>, <<AwayFormation>>,
     <<HomeFormation, AwayFormation>>, <<AwayFormation, HomeFormation>>}

HomeXg == [location |-> "home", data |-> [value |-> "1.7"]]

AwayXg == [location |-> "away", data |-> [value |-> "0.4"]]

XgLists == {<<>>, <<HomeXg>>, <<AwayXg>>, <<HomeXg, AwayXg>>, <<AwayXg, HomeXg>>}

ScoreEntry(half, side, goals) ==
    [description |-> half, participant |-> side, score |-> [goals |-> goals]]

\* Two 1ST_HALF home entries with different goals, and a 2ND_HALF away entry
\* that holds no score object.
ScoreEntries ==
    {ScoreEntry("1ST_HALF", "home", "1"), ScoreEntry("1ST_HALF", "home", "2"),
     ScoreEntry("1ST_HALF", "away", "0"), ScoreEntry("2ND_HALF", "home", "3"),
     ScoreEntry("2ND_HALF", "away", "1"),
     [description |-> "2ND_HALF", participant |-> "away"]}

Fixtures ==
    [id : {19051563}, name : {"Austin vs Dallas"}, venue_id : {7},
     starting_at : {"2023-03-18 19:30:00"}, result_info : {"Austin won."},
     participants : ParticipantLists,
     formations : FormationLists,
     scores : SeqsUpTo(ScoreEntries, MaxScores),
     xgfixture : XgLists]

TableInit ==
    /\ data \in Fixtures
    /\ tables = NoTables
    /\ table_pc = "ready"

TableIdle ==
    /\ data = <<>>
    /\ tables = NoTables
    /\ table_pc = "idle"

(***************************************************************************)
(* data_normalizer.py: write_data, remove_duplicates, and the write step   *)
(* of output_data_table.                                                   *)
(*                                                                         *)
(* A line on disk is [text, end]: text is the tuple of its comma-separated *)
(* fields as written, end its line ending ("\r\n", "\n", or "" for a last  *)
(* line that is not terminated).                                           *)
(***************************************************************************)

\* csv.writer's rendering of one value: None as the empty field, a value
\* holding the delimiter in quotes.
CsvField(v) ==
    IF v = None THEN ""
    ELSE IF v = "x,y" THEN "\"x,y\""
    ELSE v

\* writer.writerow(row): the fields and csv's default line terminator.
CsvLine(row) == [text |-> [i \in 1..Len(row) |-> CsvField(row[i])], end |-> "\r\n"]

\* The rows a data argument stands for: type(data[0]) is list selects
\* writerows(data), anything else writerow(data).
RowsOf(b) == IF b.nested THEN b.data ELSE <<b.data>>

\* open(filename, 'w') in place of 'a': the old content is lost.
Overwritten(f, b) == [i \in 1..Len(RowsOf(b)) |-> CsvLine(RowsOf(b)[i])]

\* write_data: open(filename, 'a', newline='') and the writer's pass.
WriteData(f, b) == f \o [i \in 1..Len(RowsOf(b)) |-> CsvLine(RowsOf(b)[i])]

\* f.readlines() in text mode: every line ending is read as "\n".
ReadLines(f) ==
    [i \in 1..Len(f) |-> [text |-> f[i].text,
                          end  |-> IF f[i].end = "" THEN "" ELSE "\n"]]

RECURSIVE KeepUnseenAfter(_, _)
\* A pass that forgets what it has seen: only a repeat of the line just
\* before is dropped.
KeepUnseenAfter(lines, lines_seen) ==
    IF lines = <<>> THEN <<>>
    ELSE IF Head(lines) \in lines_seen
         THEN KeepUnseenAfter(Tail(lines), lines_seen)
         ELSE <<Head(lines)>> \o KeepUnseenAfter(Tail(lines), {Head(lines)})

RECURSIVE KeepUnseen(_, _)
\* The loop of remove_duplicates over lines with the set lines_seen.
KeepUnseen(lines, lines_seen) ==
    IF lines = <<>> THEN <<>>
    ELSE IF Head(lines) \in lines_seen
         THEN KeepUnseen(Tail(lines), lines_seen)
         ELSE <<Head(lines)>> \o KeepUnseen(Tail(lines), lines_seen \cup {Head(lines)})

\* remove_duplicates: the file is read whole and rewritten.
RemoveDuplicates(f) == KeepUnseen(ReadLines(f), {})

\* remove_duplicates(file_name) run on its own.
RemoveDuplicatesCall ==
    /\ file_exists
    /\ Len(dedupe_log) <= MaxDedupeRuns
    /\ prev_file' = file
    /\ file' = RemoveDuplicates(file)
    /\ dedupe_log' = Append(dedupe_log, RemoveDuplicates(file))
    /\ UNCHANGED <<file_exists, batch, appended>>
    /\ UNCHANGED <<fetch_vars, table_vars, lookup_vars, enrich_vars>>
    /\ UNCHANGED <<output_vars, download_vars>>

\* The body of output_data_table's loop for one table with rows: write_data,
\* then remove_duplicates when duplicate_remove is set.
AppendTable(b, duplicate_remove) ==
    /\ Len(RowsOf(b)) > 0
    /\ prev_file' = file
    /\ file' = IF duplicate_remove THEN RemoveDuplicates(WriteData(file, b))
               ELSE WriteData(file, b)
    /\ file_exists' = TRUE
    /\ batch' = b
    /\ appended' = appended \cup {RowsOf(b)[i] : i \in 1..Len(RowsOf(b))}
    /\ UNCHANGED dedupe_log
    /\ UNCHANGED <<fetch_vars, table_vars, lookup_vars, enrich_vars>>
    /\ UNCHANGED <<output_vars, download_vars>>

(***************************************************************************)
(* The file contents and the rows the writer is run on.                    *)
(***************************************************************************)
MaxLines == 3

MaxRows == 2

TextLines == {<<"a">>, <<"b">>}

\* Any content of up to MaxLines lines; only the last may lack its ending.
FileContents ==
    {f \in SeqsUpTo([text : TextLines, end : {"\r\n", "\n", ""}], MaxLines) :
        \A i \in 1..(Len(f) - 1) : f[i].end # ""}

\* Rows of two columns; the first two differ only in None against ''.
TableRows ==
    {<<"1", None>>, <<"1", "">>, <<"2", "x">>, <<"3", "x,y">>, <<"4", "z">>}

\* The data arguments: a list of rows, or one flat row.
Batches ==
    [nested : {TRUE}, data : SeqsUpTo(TableRows, MaxRows) \ {<<>>}]
        \cup [nested : {FALSE}, data : TableRows]

NoBatch == [nested |-> TRUE, data |-> <<>>]

FileIdle ==
    /\ file = <<>>
    /\ file_exists = FALSE
    /\ prev_file = <<>>
    /\ batch = NoBatch
    /\ appended = {}
    /\ dedupe_log = <<>>

(***************************************************************************)
(* sportmonk.py: update_lookup, read_lookup                                *)
(*                                                                         *)
(* A dict is a function from its keys; a JSON object is the set of its     *)
(* members <<key string, value>>, a key string the tuple of its            *)
(* characters.                                                             *)
(***************************************************************************)
DigitChars == <<"0", "1", "2", "3", "4", "5", "6", "7", "8", "9">>

DigitOf(c) == (CHOOSE i \in 1..Len(DigitChars) : DigitChars[i] = c) - 1

RECURSIVE NatToStr(_)
NatToStr(n) ==
    IF n < 10 THEN <<DigitChars[n + 1]>>
    ELSE NatToStr(n \div 10) \o <<DigitChars[(n % 10) + 1]>>

\* The key json.dump writes for an int key: str(key).
IntToStr(n) == IF n < 0 THEN <<"-">> \o NatToStr(0 - n) ELSE NatToStr(n)

RECURSIVE StrToNat(_)
StrToNat(str) ==
    IF str = <<>> THEN 0
    ELSE StrToNat(SubSeq(str, 1, Len(str) - 1)) * 10 + DigitOf(str[Len(str)])

\* A conversion that loses the sign.
StrToIntUnsigned(str) ==
    IF str[1] = "-" THEN StrToNat(Tail(str)) ELSE StrToNat(str)

\* int(k) on a key string of the file.
StrToInt(str) ==
    IF str[1] = "-" THEN 0 - StrToNat(Tail(str)) ELSE StrToNat(str)

\* json.dump(file, lookup_file): the keys become strings.
JsonDump(dict) == {<<IntToStr(k), dict[k]>> : k \in DOMAIN dict}

\* json.load(..., object_pairs_hook=lambda kv: {int(k): v for k, v in kv})
JsonLoadIntKeys(members) ==
    [k \in {StrToInt(m[1]) : m \in members} |->
        (CHOOSE m \in members : StrToInt(m[1]) = k)[2]]

\* update_lookup(file, 'types')
UpdateLookup(dict) ==
    /\ lookup_pc \in {"start", "written", "read"}
    /\ lookup_file' = JsonDump(dict)
    /\ written' = dict
    /\ lookup_pc' = "written"
    /\ UNCHANGED <<fetch_vars, table_vars, file_vars, enrich_vars>>
    /\ UNCHANGED <<output_vars, download_vars>>

\* TYPES_LOOKUP = read_lookup('types'); the file exists once written.
ReadLookup ==
    /\ lookup_pc \in {"written", "read"}
    /\ TYPES_LOOKUP' = JsonLoadIntKeys(lookup_file)
    /\ lookup_pc' = "read"
    /\ UNCHANGED <<lookup_file, written, game, enrich_err, enrich_pc>>
    /\ UNCHANGED <<fetch_vars, table_vars, file_vars>>
    /\ UNCHANGED <<output_vars, download_vars>>

\* The dicts update_type_lookup may build: ids of one to three digits, zero
\* and a negative id, each with either of two names.
LookupKeys == {0 - 5, 0, 10, 118}

LookupDicts == UNION {[ks -> {"Shots", "Goal"}] : ks \in SUBSET LookupKeys}

LookupIdle ==
    /\ lookup_file = {}
    /\ written = <<>>
    /\ lookup_pc = "idle"

(***************************************************************************)
(* sportmonk.py: fixture_statistics_lookups, fixture_lineup_detail_lookups,*)
(* fixture_lineup_lookups.                                                 *)
(*                                                                         *)
(* A code field is <<c>> for the code c and <<>> for null.                 *)
(***************************************************************************)
NoneId == <<>>

\* TYPES_LOOKUP[code] does not raise KeyError.
Known(code) == code # NoneId /\ code[1] \in DOMAIN TYPES_LOOKUP

\* TYPES_LOOKUP[code]
TypeName(code) == TYPES_LOOKUP[code[1]]

\* entry[key] = v
With(entry, key, v) ==
    [k \in (DOMAIN entry) \cup {key} |-> IF k = key THEN v ELSE entry[k]]

\* A for loop over list, steps[i] being what the loop's body makes of entry
\* i: [ok, val], the entry as the body left it and whether the body ran
\* through.  The loop ends at the first entry whose body raises; the entries
\* after it are not touched.
ForEach(list, steps) ==
    LET bad  == {i \in 1..Len(list) : ~steps[i].ok}
        stop == IF bad = {} THEN Len(list) + 1
                ELSE CHOOSE i \in bad : \A j \in bad : i <= j
    IN  [ok  |-> bad = {},
         val |-> [i \in 1..Len(list) |->
                     IF i <= stop THEN steps[i].val ELSE list[i]]]

\* A pass that leaves an entry alone when its code is not in the store.
SetTypeOrSkip(entry) ==
    [ok |-> TRUE,
     val |-> IF Known(entry.type_id)
             THEN With(entry, "type", TypeName(entry.type_id)) ELSE entry]

\* stat['type'] = TYPES_LOOKUP[stat['type_id']]
SetType(entry) ==
    IF Known(entry.type_id)
    THEN [ok |-> TRUE, val |-> With(entry, "type", TypeName(entry.type_id))]
    ELSE [ok |-> FALSE, val |-> entry]

\* The body of the events loop (lines 165-169).
SetEventTypes(event) ==
    IF ~Known(event.type_id) THEN [ok |-> FALSE, val |-> event]
    ELSE LET typed == With(event, "type", TypeName(event.type_id))
         IN  IF event.sub_type_id = NoneId
             THEN [ok |-> TRUE, val |-> With(typed, "subtype", None)]
             ELSE IF Known(event.sub_type_id)
             THEN [ok |-> TRUE,
                   val |-> With(typed, "subtype", TypeName(event.sub_type_id))]
             ELSE [ok |-> FALSE, val |-> typed]

\* The inner loop of fixture_lineup_detail_lookups for one player.
SetDetailTypes(player) ==
    LET done == ForEach(player.details,
                        [i \in 1..Len(player.details) |-> SetType(player.details[i])])
    IN  [ok |-> done.ok, val |-> [player EXCEPT !.details = done.val]]

\* A body without the tests for null: TYPES_LOOKUP[None] raises.
SetLineupNamesUnguarded(player) ==
    IF ~Known(player.type_id) THEN [ok |-> FALSE, val |-> player]
    ELSE LET typed == With(player, "lineup_type", TypeName(player.type_id))
         IN  IF ~Known(player.position_id) THEN [ok |-> FALSE, val |-> typed]
             ELSE [ok |-> TRUE,
                   val |-> With(typed, "position", TypeName(player.position_id))]

\* The body of the loop of fixture_lineup_lookups (lines 193-194).
SetLineupNames(player) ==
    IF player.type_id # NoneId /\ ~Known(player.type_id)
    THEN [ok |-> FALSE, val |-> player]
    ELSE LET typed == With(player, "lineup_type",
                           IF player.type_id # NoneId
                           THEN TypeName(player.type_id) ELSE "N/A")
         IN  IF player.position_id # NoneId /\ ~Known(player.position_id)
             THEN [ok |-> FALSE, val |-> typed]
             ELSE [ok |-> TRUE,
                   val |-> With(typed, "position",
                                IF player.position_id # NoneId
                                THEN TypeName(player.position_id) ELSE "N/A")]

\* fixture_statistics_lookups(data)
FixtureStatisticsLookups(d) ==
    LET stats == ForEach(d.statistics,
                         [i \in 1..Len(d.statistics) |-> SetType(d.statistics[i])])
    IN  IF ~stats.ok
        THEN [ok |-> FALSE, val |-> [d EXCEPT !.statistics = stats.val]]
        ELSE LET events == ForEach(d.events,
                                   [i \in 1..Len(d.events) |-> SetEventTypes(d.events[i])])
             IN  [ok  |-> events.ok,
                  val |-> [d EXCEPT !.statistics = stats.val,
                                    !.events = events.val]]

\* fixture_lineup_detail_lookups(data)
FixtureLineupDetailLookups(d) ==
    LET players == ForEach(d.lineups,
                           [i \in 1..Len(d.lineups) |-> SetDetailTypes(d.lineups[i])])
    IN  [ok |-> players.ok, val |-> [d EXCEPT !.lineups = players.val]]

\* fixture_lineup_lookups(data)
FixtureLineupLookups(d) ==
    LET players == ForEach(d.lineups,
                           [i \in 1..Len(d.lineups) |-> SetLineupNames(d.lineups[i])])
    IN  [ok |-> players.ok, val |-> [d EXCEPT !.lineups = players.val]]

\* The three passes in the order export_fixture and
\* download_fixtures_date_range call them; a pass that raises ends the chain.
Enriched(d) ==
    LET one == FixtureStatisticsLookups(d)
    IN  IF ~one.ok THEN one
        ELSE LET two == FixtureLineupDetailLookups(one.val)
             IN  IF ~two.ok THEN two
                 ELSE FixtureLineupLookups(two.val)

Enrich ==
    /\ enrich_pc = "ready"
    /\ game' = Enriched(game).val
    /\ enrich_err' = IF Enriched(game).ok THEN "none" ELSE "KeyError"
    /\ enrich_pc' = "done"
    /\ UNCHANGED TYPES_LOOKUP
    /\ UNCHANGED <<fetch_vars, table_vars, file_vars, lookup_vars>>
    /\ UNCHANGED <<output_vars, download_vars>>

\* fixture_lineup_lookups(data) called on its own.
FixtureLineupLookupsCall ==
    /\ enrich_pc = "ready"
    /\ game' = FixtureLineupLookups(game).val
    /\ enrich_err' = IF FixtureLineupLookups(game).ok THEN "none" ELSE "KeyError"
    /\ enrich_pc' = "done"
    /\ UNCHANGED TYPES_LOOKUP
    /\ UNCHANGED <<fetch_vars, table_vars, file_vars, lookup_vars>>
    /\ UNCHANGED <<output_vars, download_vars>>

(***************************************************************************)
(* The stores and the records the enricher is run on.                      *)
(***************************************************************************)
MaxStatistics == 2

TypeNames == [k \in {10, 20, 30} |-> IF k = 10 THEN "Shots"
                                     ELSE IF k = 20 THEN "Goal" ELSE "Midfielder"]

\* Every store holding some of the codes 10, 20, 30.
Stores == {[k \in ks |-> TypeNames[k]] : ks \in SUBSET {10, 20, 30}}

Statistic(c) == [type_id |-> <<c>>]

Event(c, sub) == [id |-> 1, type_id |-> <<c>>, sub_type_id |-> sub]

Detail(c) == [type_id |-> <<c>>, data |-> [value |-> "3"]]

Player(type, position, details) ==
    [player_id |-> 77, team_id |-> 10, type_id |-> type,
     position_id |-> position, details |-> details]

EventLists ==
    {<<>>, <<Event(10, NoneId)>>, <<Event(20, <<10>>)>>,
     <<Event(10, <<30>>), Event(20, NoneId)>>}

LineupLists ==
    {<<>>, <<Player(NoneId, NoneId, <<Detail(10), Detail(20)>>)>>,
     <<Player(<<10>>, <<30>>, <<>>)>>,
     <<Player(<<10>>, NoneId, <<Detail(10)>>)>>,
     <<Player(<<10>>, NoneId, <<Detail(10)>>), Player(NoneId, <<20>>, <<Detail(30)>>)>>}

Games ==
    [id : {19051563},
     statistics : SeqsUpTo({Statistic(10), Statistic(20), Statistic(30)}, MaxStatistics),
     events : EventLists,
     lineups : LineupLists]

EnrichIdle ==
    /\ TYPES_LOOKUP = <<>>
    /\ game = <<>>
    /\ enrich_err = "none"
    /\ enrich_pc = "idle"

(***************************************************************************)
(* data_normalizer.py: event_table, player_performance_table,              *)
(* players_table and output_data_table.                                    *)
(*                                                                         *)
(* The mapping a builder returns is the list of its (table_nm, value)      *)
(* pairs in key order; a value is [name, nested, data], nested telling     *)
(* whether data[0] is itself a list (a list of rows) or not (one flat row).*)
(***************************************************************************)

\* entry[key] raises KeyError for some key of keys.
Lacks(entry, keys) == \E k \in keys : k \notin DOMAIN entry

Table(name, nested, rows) == [name |-> name, nested |-> nested, data |-> rows]

NotCalled ==
    [function |-> "none", output_directory |-> "", duplicate_remove |-> FALSE,
     error |-> "none", tables |-> <<>>]

\* The keys event_table subscripts an event with.
EventKeys ==
    {"fixture_id", "id", "period_id", "minute", "extra_minute", "player_id",
     "player_name", "participant_id", "related_player_id",
     "related_player_name", "type", "subtype", "info", "injured"}

\* The list appended for one event (lines 158-173).
EventRow(d, event) ==
    <<event.fixture_id,
      event.id,
      Get(DictLookup(d.periods, << <<"id", event.period_id>> >>), "sort_order", None),
      event.minute,
      event.extra_minute,
      event.player_id,
      event.player_name,
      event.participant_id,
      event.related_player_id,
      event.related_player_name,
      event.type,
      event.subtype,
      event.info,
      event.injured>>

\* event_table(data)
EventTable(d) ==
    IF \E i \in 1..Len(d.events) : Lacks(d.events[i], EventKeys)
    THEN [error |-> "KeyError", tables |-> <<>>]
    ELSE [error |-> "none",
          tables |-> <<Table("events", TRUE,
                             [i \in 1..Len(d.events) |-> EventRow(d, d.events[i])])>>]

\* The keys player_performance_table subscripts a detail with.
DetailKeys == {"player_id", "fixture_id", "team_id", "type", "data"}

\* A row built from the lineup entry in place of the detail.
DetailRowOfPlayer(d, player, deet) ==
    <<player.player_id, d.id, player.team_id, deet.type, deet.data.value>>

\* The list built for one detail (lines 179-185); player is the lineup entry
\* of the outer for, d the record.
DetailRow(d, player, deet) ==
    <<deet.player_id, deet.fixture_id, deet.team_id, deet.type, deet.data.value>>

RECURSIVE Flatten(_)
\* The order of a comprehension with two for clauses: the outer list's
\* entries in order, each with its inner entries in order.
Flatten(lists) ==
    IF lists = <<>> THEN <<>> ELSE Head(lists) \o Flatten(Tail(lists))

\* player_performance_table(data)
PlayerPerformanceTable(d) ==
    IF \E p \in 1..Len(d.lineups) : \E i \in 1..Len(d.lineups[p].details) :
           Lacks(d.lineups[p].details[i], DetailKeys)
    THEN [error |-> "KeyError", tables |-> <<>>]
    ELSE [error |-> "none",
          tables |-> <<Table("player_performance", TRUE,
              Flatten([p \in 1..Len(d.lineups) |->
                  [i \in 1..Len(d.lineups[p].details) |->
                      DetailRow(d, d.lineups[p], d.lineups[p].details[i])]]))>>]

\* dict.get(code) on a lookup store: None for a code that is no key (null
\* included).
LookupGet(store, code) ==
    IF code # <<>> /\ code[1] \in DOMAIN store THEN store[code[1]] ELSE None

\* A row that leaves out the image path.
SquadRowShort(player) ==
    <<player.id,
      player.player_id,
      player.team_id,
      player.player.name,
      LookupGet(COUNTRY_LOOKUP, player.player.nationality_id),
      LookupGet(TYPES_LOOKUP, player.position_id),
      LookupGet(TYPES_LOOKUP, player.detailed_position_id),
      player.jersey_number,
      player.player.height,
      player.player.weight,
      player.player.date_of_birth>>

\* The list built for one roster player (lines 195-210).
SquadRow(player) ==
    <<player.id,
      player.player_id,
      player.team_id,
      player.player.name,
      LookupGet(COUNTRY_LOOKUP, player.player.nationality_id),
      LookupGet(TYPES_LOOKUP, player.position_id),
      LookupGet(TYPES_LOOKUP, player.detailed_position_id),
      player.jersey_number,
      player.player.height,
      player.player.weight,
      player.player.date_of_birth,
      player.player.image_path>>

\* players_table(data): the rosters of the first two participants.
PlayersTable(d) ==
    IF Len(d.participants) < 2 THEN [error |-> "IndexError", tables |-> <<>>]
    ELSE IF Lacks(d.participants[1], {"players"}) \/ Lacks(d.participants[2], {"players"})
    THEN [error |-> "KeyError", tables |-> <<>>]
    ELSE LET players == d.participants[1].players \o d.participants[2].players
         IN  [error |-> "none",
              tables |-> <<Table("squad_players", TRUE,
                                 [i \in 1..Len(players) |-> SquadRow(players[i])])>>]

\* fixture_table(data) as the mapping it returns: the fixture value is one
\* flat row, the performance value a list of two rows.
FixtureTables(d) ==
    LET t == FixtureTable(Unnested(d))
    IN  IF t.error # "none" THEN [error |-> t.error, tables |-> <<>>]
        ELSE [error |-> "none",
              tables |-> <<Table("fixture", FALSE, t.fixture),
                           Table("performance", TRUE, t.performance)>>]

Builders ==
    {"fixture_table", "event_table", "player_performance_table", "players_table"}

\* function(data): what the builder returns or raises.
Build(function, d) ==
    CASE function = "fixture_table" -> FixtureTables(d)
      [] function = "event_table" -> EventTable(d)
      [] function = "player_performance_table" -> PlayerPerformanceTable(d)
      [] function = "players_table" -> PlayersTable(d)

\* The record as function(data) leaves it: fixture_table replaces three of
\* its lists by their unnested forms (lines 102-103), the other builders
\* assign nothing.
LeftBy(function, d) ==
    IF function = "fixture_table" THEN Unnested(d) ELSE d

\* f'{output_directory}/{table_nm}.csv'
FileName(output_directory, table_nm) == <<output_directory, "/", table_nm, ".csv">>

\* The content of a file, nothing for a file that does not exist.
Content(fs, name) == IF name \in DOMAIN fs THEN fs[name] ELSE <<>>

\* fs with the file name holding lines.
Put(fs, name, lines) ==
    [n \in (DOMAIN fs) \cup {name} |-> IF n = name THEN lines ELSE fs[n]]

\* A test that lets every table through.
HasRowsAlways(t) == TRUE

\* len(fixture[table_nm]) > 0
HasRows(t) == Len(t.data) > 0

\* The body of the loop of output_data_table for one table (lines 149-152).
WriteTable(fs, t, output_directory, duplicate_remove) ==
    IF ~HasRows(t) THEN fs
    ELSE LET name == FileName(output_directory, t.name)
             appended_to == WriteData(Content(fs, name), t)
         IN  Put(fs, name, IF duplicate_remove THEN RemoveDuplicates(appended_to)
                           ELSE appended_to)

RECURSIVE WriteTables(_, _, _, _)
\* for table_nm in fixture.keys()
WriteTables(fs, tbls, output_directory, duplicate_remove) ==
    IF tbls = <<>> THEN fs
    ELSE WriteTables(WriteTable(fs, Head(tbls), output_directory, duplicate_remove),
                     Tail(tbls), output_directory, duplicate_remove)

\* output_data_table(data, function, output_directory, duplicate_remove) on
\* the record d and the files fs: the error it ends with, the record and the
\* files as it leaves them.  A builder that raises has written nothing.
Output(d, fs, function, output_directory, duplicate_remove) ==
    LET out == Build(function, d)
    IN  [error  |-> out.error,
         tables |-> out.tables,
         record |-> LeftBy(function, d),
         files  |-> WriteTables(fs, out.tables, output_directory, duplicate_remove)]

MaxCalls == 2

\* One call of output_data_table on the enriched record.
OutputDataTable(function, output_directory, duplicate_remove) ==
    /\ calls < MaxCalls
    /\ LET out == Output(game, files, function, output_directory, duplicate_remove)
       IN  /\ game' = out.record
           /\ fixture' = [function |-> function,
                          output_directory |-> output_directory,
                          duplicate_remove |-> duplicate_remove,
                          error |-> out.error, tables |-> out.tables]
           /\ files' = out.files
    /\ prev_files' = files
    /\ calls' = calls + 1
    /\ UNCHANGED <<COUNTRY_LOOKUP, handed, TYPES_LOOKUP, enrich_err, enrich_pc>>
    /\ UNCHANGED <<fetch_vars, table_vars, file_vars, lookup_vars, download_vars>>

(***************************************************************************)
(* The stores and the records output_data_table is run on.  Scalars are    *)
(* written as the text they have in a CSV field.                           *)
(***************************************************************************)
NoFiles == [n \in {} |-> <<>>]

Countries == [k \in {1} |-> "United States"]

Roster(id, nationality, position) ==
    [id |-> id, player_id |-> "77", team_id |-> "10",
     position_id |-> position, detailed_position_id |-> NoneId,
     jersey_number |-> "9",
     player |-> [name |-> "Driussi", nationality_id |-> nationality,
                 height |-> "179", weight |-> None,
                 date_of_birth |-> "1996-02-09", image_path |-> "img/77.png"]]

Team(id, location, players) == [id |-> id, location |-> location, players |-> players]

\* Both sides with rosters, both sides with empty rosters, one side only.
TeamLists ==
    {<<Team("10", "home", <<Roster("501", <<1>>, <<30>>)>>),
       Team("20", "away", <<Roster("502", <<2>>, <<40>>), Roster("503", NoneId, NoneId)>>)>>,
     <<Team("20", "away", <<>>), Team("10", "home", <<>>)>>,
     <<Team("10", "home", <<Roster("501", <<1>>, <<30>>)>>)>>}

\* The scores and xgfixture lists: both empty, or both filled.
ScoresAndXg ==
    {<< <<>>, <<>> >>,
     << <<ScoreEntry("1ST_HALF", "home", "1"), ScoreEntry("2ND_HALF", "away", "1")>>,
        <<HomeXg, AwayXg>> >>}

Period == [id |-> "1", sort_order |-> "1"]

\* An event as the API sends it, of type code c in period period_id.
FullEvent(id, period_id, c, sub) ==
    [fixture_id |-> "19051563", id |-> id, period_id |-> period_id,
     minute |-> "45", extra_minute |-> None, player_id |-> "77",
     player_name |-> "Driussi", participant_id |-> "10",
     related_player_id |-> None, related_player_name |-> None,
     type_id |-> <<c>>, sub_type_id |-> sub, info |-> "x,y", injured |-> None]

FullEventLists ==
    {<<>>, <<FullEvent("901", "1", 20, NoneId), FullEvent("902", "2", 10, <<20>>)>>}

\* A detail as the API sends it: it names its player, fixture and team.
FullDetail(c, value) ==
    [player_id |-> "77", fixture_id |-> "19051563", team_id |-> "10",
     type_id |-> <<c>>, data |-> [value |-> value]]

\* A detail holding only what the data model lists: type_id and data.value.
BareDetail(c, value) == [type_id |-> <<c>>, data |-> [value |-> value]]

Lineup(type, position, details) ==
    [player_id |-> "77", team_id |-> "10", type_id |-> type,
     position_id |-> position, details |-> details]

\* Entries with two details, none and one; an entry with a bare detail; an
\* entry whose detail names another team than the entry itself.
FullLineupLists ==
    {<<>>,
     <<Lineup(<<10>>, NoneId, <<FullDetail(10, "3"), FullDetail(20, "1")>>),
       Lineup(<<10>>, <<30>>, <<>>),
       Lineup(NoneId, <<30>>, <<FullDetail(10, "2")>>)>>,
     <<Lineup(<<10>>, <<30>>, <<BareDetail(10, "3")>>)>>,
     <<Lineup(<<10>>, <<30>>, <<[FullDetail(10, "3") EXCEPT !.team_id = "20"]>>)>>}

Records ==
    {[id |-> "19051563", name |-> "Austin vs Dallas", venue_id |-> "7",
      starting_at |-> "2023-03-18 19:30:00", result_info |-> "Austin won.",
      participants |-> teams, formations |-> formations,
      scores |-> sx[1], xgfixture |-> sx[2],
      events |-> events, periods |-> <<Period>>,
      lineups |-> lineups, statistics |-> <<Statistic(10)>>] :
        teams \in TeamLists,
        formations \in {<<>>, <<AwayFormation>>, <<HomeFormation, AwayFormation>>},
        sx \in ScoresAndXg,
        events \in FullEventLists,
        lineups \in FullLineupLists}

OutputDirectories == {"sample_data", "database"}

OutputInit ==
    /\ TYPES_LOOKUP = TypeNames
    /\ COUNTRY_LOOKUP = Countries
    /\ \E raw \in Records : game = Enriched(raw).val
    /\ enrich_err = "none"
    /\ enrich_pc = "done"
    /\ handed = game
    /\ fixture = NotCalled
    /\ files = NoFiles
    /\ prev_files = NoFiles
    /\ calls = 0

OutputIdle ==
    /\ COUNTRY_LOOKUP = <<>>
    /\ handed = <<>>
    /\ fixture = NotCalled
    /\ files = NoFiles
    /\ prev_files = NoFiles
    /\ calls = 0

(***************************************************************************)
(* downloader.py: download_fixtures_date_range                             *)
(***************************************************************************)

\* The builders the loop hands to output_data_table, in call order
\* (lines 29-31).
DownloadBuilders == <<"fixture_table", "event_table", "player_performance_table">>

RECURSIVE OutputAll(_, _, _)
\* The calls of output_data_table of one pass of the loop, each with
\* output_directory='database' and duplicate_remove=True; a call that raises
\* ends the chain, the files written by the calls before it stay written.
OutputAll(d, fs, functions) ==
    IF functions = <<>> THEN [error |-> "none", record |-> d, files |-> fs]
    ELSE LET out == Output(d, fs, Head(functions), "database", TRUE)
         IN  IF out.error # "none"
             THEN [error |-> out.error, record |-> out.record, files |-> out.files]
             ELSE OutputAll(out.record, out.files, Tail(functions))

\* The try block (lines 23-31) on the record d and the files fs.
TryFixture(d, fs) ==
    LET enriched == Enriched(d)
    IN  IF ~enriched.ok
        THEN [error |-> "KeyError", record |-> enriched.val, files |-> fs]
        ELSE OutputAll(enriched.val, fs, DownloadBuilders)

\* A loop without the try: the first error ends it.
NextTakenUncaught(i, error) == IF error = "none" THEN i + 1 ELSE Len(games)

\* The entries the for loop has taken after the pass on entry i + 1: the
\* except clause swallows whatever was raised.
NextTaken(i, error) == i + 1

\* One pass of the for loop: the try block and, on any error, the print of
\* the except clause.
ProcessFixture ==
    /\ taken < Len(games)
    /\ LET done == TryFixture(games[taken + 1], files)
       IN  /\ games' = [games EXCEPT ![taken + 1] = done.record]
           /\ files' = done.files
           /\ printed' = IF done.error = "none" THEN printed
                         ELSE Append(printed, <<"Error on fixture: ", done.record.id>>)
           /\ attempts' = Append(attempts, [id |-> games[taken + 1].id,
                                            error |-> done.error])
           /\ taken' = NextTaken(taken, done.error)
    /\ prev_files' = files
    /\ UNCHANGED <<fetched, TYPES_LOOKUP, COUNTRY_LOOKUP, game, enrich_err,
                   enrich_pc, handed, fixture, calls>>
    /\ UNCHANGED <<fetch_vars, table_vars, file_vars, lookup_vars>>

(***************************************************************************)
(* The results get_fixtures may return to the loop.                        *)
(***************************************************************************)
MaxFixtures == 2

\* A fetched record of the given id.
Fetched(id, statistics, formations, events, lineups) ==
    [id |-> id, name |-> "Austin vs Dallas", venue_id |-> "7",
     starting_at |-> "2023-03-18 19:30:00", result_info |-> "Austin won.",
     participants |-> <<Team("10", "home", <<>>), Team("20", "away", <<>>)>>,
     formations |-> formations, scores |-> <<>>, xgfixture |-> <<>>,
     events |-> events, periods |-> <<Period>>,
     lineups |-> lineups, statistics |-> statistics]

OneEvent == <<FullEvent("901", "1", 20, NoneId)>>

OneLineup == <<Lineup(<<10>>, NoneId, <<FullDetail(10, "3")>>)>>

\* Two records that go through, one whose statistic has no name in the
\* store, one whose lineup position has a name in some stores only, one
\* that fixture_table fails on and one that player_performance_table fails
\* on after the fixture and events files were written.
FetchedRecords ==
    {Fetched("1", <<Statistic(10)>>, <<>>, OneEvent, OneLineup),
     Fetched("2", <<>>, <<HomeFormation, AwayFormation>>, <<>>, <<>>),
     Fetched("3", <<Statistic(40)>>, <<>>, OneEvent, OneLineup),
     Fetched("4", <<>>, <<>>, <<>>, <<Lineup(<<10>>, <<30>>, <<>>)>>),
     Fetched("5", <<>>, <<AwayFormation>>, OneEvent, OneLineup),
     Fetched("6", <<>>, <<>>, OneEvent, <<Lineup(<<10>>, NoneId, <<BareDetail(10, "3")>>)>>)}

DownloadInit ==
    /\ TYPES_LOOKUP \in {TypeNames, [k \in {10, 20} |-> TypeNames[k]]}
    /\ COUNTRY_LOOKUP = Countries
    /\ games \in SeqsUpTo(FetchedRecords, MaxFixtures)
    /\ fetched = games
    /\ taken = 0
    /\ attempts = <<>>
    /\ printed = <<>>
    /\ files = NoFiles
    /\ prev_files = NoFiles
    /\ game = <<>>
    /\ enrich_err = "none"
    /\ enrich_pc = "idle"
    /\ handed = <<>>
    /\ fixture = NotCalled
    /\ calls = 0

DownloadIdle ==
    /\ games = <<>>
    /\ fetched = <<>>
    /\ taken = 0
    /\ attempts = <<>>
    /\ printed = <<>>

(***************************************************************************)
(* Specifications.                                                         *)
(***************************************************************************)
Servers ==
    UNION {[1..n -> [data : PageData, remaining : Remaining]] : n \in 1..MaxPages}

FetchInit ==
    /\ server \in Servers
    /\ has_pages \in BOOLEAN
    /\ has_pages = FALSE => Len(server) = 1
    /\ all_r = <<>>
    /\ pagination = NullLink
    /\ requests = <<>>
    /\ fetch_pc = "loop"
    /\ result = NoResult

FetchIdle ==
    /\ server = <<>>
    /\ has_pages = FALSE
    /\ all_r = <<>>
    /\ pagination = NullLink
    /\ requests = <<>>
    /\ fetch_pc = "idle"
    /\ result = NoResult

InitFetch == FetchInit /\ TableIdle /\ FileIdle /\ LookupIdle /\ EnrichIdle /\ OutputIdle /\ DownloadIdle

NextFetch == FetchPage \/ FetchReturn

SpecFetch == InitFetch /\ [][NextFetch]_vars

InitTable == TableInit /\ FetchIdle /\ FileIdle /\ LookupIdle /\ EnrichIdle /\ OutputIdle /\ DownloadIdle

NextTable == FixtureTableCall

SpecTable == InitTable /\ [][NextTable]_vars

InitDedupe ==
    /\ FetchIdle /\ TableIdle /\ LookupIdle /\ EnrichIdle /\ OutputIdle /\ DownloadIdle
    /\ file \in FileContents
    /\ file_exists = TRUE
    /\ prev_file = file
    /\ batch = NoBatch
    /\ appended = {}
    /\ dedupe_log = <<file>>

NextDedupe == RemoveDuplicatesCall

SpecDedupe == InitDedupe /\ [][NextDedupe]_vars

InitFile == FetchIdle /\ TableIdle /\ FileIdle /\ LookupIdle /\ EnrichIdle /\ OutputIdle /\ DownloadIdle

\* export_fixture and download_fixtures_date_range pass duplicate_remove=True.
NextFile == \E b \in Batches : AppendTable(b, TRUE)

SpecFile == InitFile /\ [][NextFile]_vars

InitLookup ==
    /\ FetchIdle /\ TableIdle /\ FileIdle /\ EnrichIdle /\ OutputIdle /\ DownloadIdle
    /\ lookup_file = {}
    /\ written = <<>>
    /\ lookup_pc = "start"

NextLookup == (\E dict \in LookupDicts : UpdateLookup(dict)) \/ ReadLookup

SpecLookup == InitLookup /\ [][NextLookup]_vars

InitEnrich ==
    /\ FetchIdle /\ TableIdle /\ FileIdle /\ LookupIdle /\ OutputIdle /\ DownloadIdle
    /\ TYPES_LOOKUP \in Stores
    /\ game \in Games
    /\ enrich_err = "none"
    /\ enrich_pc = "ready"

NextEnrich == Enrich

SpecEnrich == InitEnrich /\ [][NextEnrich]_vars

InitOutput == OutputInit /\ FetchIdle /\ TableIdle /\ FileIdle /\ LookupIdle /\ DownloadIdle

\* The callers pass any of the builders, with or without the dedupe.
NextOutput ==
    \E function \in Builders, output_directory \in OutputDirectories,
       duplicate_remove \in BOOLEAN :
        OutputDataTable(function, output_directory, duplicate_remove)

SpecOutput == InitOutput /\ [][NextOutput]_vars

InitDownload == DownloadInit /\ FetchIdle /\ TableIdle /\ FileIdle /\ LookupIdle

NextDownload == ProcessFixture

SpecDownload == InitDownload /\ [][NextDownload]_vars

InitLineup == InitEnrich

NextLineup == FixtureLineupLookupsCall

SpecLineup == InitLineup /\ [][NextLineup]_vars

(***************************************************************************)
(* Claims about paginated_results (checked under SpecFetch).               *)
(***************************************************************************)

\* Page p of the server reports a quota at or below the threshold.
LowQuotaPage(p) == server[p].remaining <= 2900

\* The first page reporting a low quota, 0 when none does.
FirstLowPage ==
    LET low == {p \in 1..Len(server) : LowQuotaPage(p)}
    IN  IF low = {} THEN 0 ELSE CHOOSE p \in low : \A q \in low : p <= q

\* The number of records on the pages before page p.
RecordsBefore(p) ==
    LET count[q \in 0..Len(server)] ==
            IF q = 0 THEN 0 ELSE count[q - 1] + Len(server[q].data)
    IN  count[p - 1]

\* d holds exactly the records of pages 1..n, page after page, each page's
\* records at consecutive places in the page's own order.
IsPagesInOrder(d, n) ==
    /\ Len(d) = RecordsBefore(n + 1)
    /\ \A p \in 1..n : \A i \in 1..Len(server[p].data) :
           d[RecordsBefore(p) + i] = server[p].data[i]

\* C1: when every page reports a remaining quota above 2900, the pages are
\* requested one by one in chain order (the first request selects page 1, the
\* i-th page i), and the returned data is the concatenation of all the
\* pages' data arrays in page order, nothing dropped, repeated or moved.
C1_ConcatenationInPageOrder ==
    /\ Len(requests) = Len(all_r)
    /\ (fetch_pc = "done" /\ FirstLowPage = 0) =>
          /\ Len(requests) = Len(server)
          /\ \A i \in 1..Len(requests) : RequestedPage(requests[i]) = i
          /\ IsPagesInOrder(result.data, Len(server))

C1_Witness ==
    /\ fetch_pc = "done"
    /\ FirstLowPage = 0
    /\ Len(server) = 3
    /\ server[1].data = <<"A", "B">>
    /\ server[2].data = <<"C", "D">>
    /\ server[3].data = <<"E">>
    /\ result.data = <<"A", "B", "C", "D", "E">>

C3_SinglePageEnvelopeUnmodified ==
    fetch_pc = "done" =>
        /\ Len(requests) = 1 =>
              /\ result = Respond(Url)
              /\ has_pages => "pagination" \in DOMAIN result
        /\ Len(requests) > 1 =>
              DOMAIN result = {"data", "subscription", "rate_limit", "timezone"}

C3_Witness ==
    /\ fetch_pc = "done"
    /\ Len(server) = 3
    /\ Len(requests) = 1
    /\ LowQuotaPage(1)
    /\ result.pagination.next_page = PageLink(2)
    /\ result.pagination.current_page = 1

(***************************************************************************)
(* Claims about dict_lookup and fixture_table (checked under SpecTable).   *)
(***************************************************************************)
Sides == <<"home", "away">>

Halves == <<"1ST_HALF", "2ND_HALF">>

\* The record holds a participant of each side.
HasBothSides(d) ==
    \A s \in {"home", "away"} :
        \E i \in 1..Len(d.participants) : d.participants[i].location = s

\* The places of the entries of list that meet every condition of args.
Hits(list, args) ==
    {i \in 1..Len(list) : \A c \in 1..Len(args) : list[i][args[c][1]] = args[c][2]}

\* found is the entry of list at the least place meeting args, or the empty
\* object when no place does.
IsFirstMatch(found, list, args) ==
    IF Hits(list, args) = {} THEN DOMAIN found = {}
    ELSE \E i \in Hits(list, args) :
            /\ \A j \in Hits(list, args) : i <= j
            /\ found = list[i]

BySide(s) == << <<"location", s>> >>

ByHalfAndSide(h, s) == << <<"description", h>>, <<"participant", s>> >>

\* The value a column is to show for the earliest entry meeting args: the
\* entry's value, null when there is no such entry or it holds no value.
FirstValue(list, args, outer, inner) ==
    IF Hits(list, args) = {} THEN None
    ELSE LET i == CHOOSE k \in Hits(list, args) : \A j \in Hits(list, args) : k <= j
         IN  IF outer \notin DOMAIN list[i] THEN None ELSE list[i][outer][inner]

FirstFormation(list, s) ==
    IF Hits(list, BySide(s)) = {} THEN None
    ELSE list[CHOOSE k \in Hits(list, BySide(s)) :
                  \A j \in Hits(list, BySide(s)) : k <= j].formation

\* The performance row of side number n (1 home, 2 away) shows, for each
\* optional column, the first matching entry's value or null.
PerformanceRowAsExpected(n) ==
    LET row == tables.performance[n]
        s   == Sides[n]
    IN  /\ Len(row) = 7
        /\ row[1] = data.id
        /\ row[3] = FirstFormation(data.formations, s)
        /\ row[4] = FirstValue(data.scores, ByHalfAndSide("1ST_HALF", s), "score", "goals")
        /\ row[5] = FirstValue(data.scores, ByHalfAndSide("2ND_HALF", s), "score", "goals")
        /\ row[6] = FirstValue(data.xgfixture, BySide(s), "data", "value")
        /\ row[7] = s

\* C4: for a record with a home and an away participant fixture_table
\* returns, without error, one fixture row of seven columns and two
\* performance rows, the home row first, whatever formations, scores and
\* xgfixture hold (both sides, one side only, or nothing).
C4_OneFixtureRowTwoPerformanceRows ==
    (table_pc = "done" /\ HasBothSides(data)) =>
        /\ tables.error = "none"
        /\ Len(tables.fixture) = 7
        /\ Len(tables.performance) = 2
        /\ tables.performance[1][7] = "home"
        /\ tables.performance[2][7] = "away"

\* C5: for a record with both participants, an empty formations list gives a
\* null formation in both rows, an empty xgfixture list a null xG in both
\* rows, and a missing 1ST_HALF or 2ND_HALF entry of a side a null goals
\* column for that side and half; no error is raised in any of these cases
\* and the remaining columns show their entries' values.
C5_OptionalColumnsNullWithoutError ==
    (table_pc = "done" /\ HasBothSides(data)) =>
        LET absent ==
                \/ data.formations = <<>>
                \/ data.xgfixture = <<>>
                \/ \E h \in {"1ST_HALF", "2ND_HALF"}, s \in {"home", "away"} :
                       Hits(data.scores, ByHalfAndSide(h, s)) = {}
        IN  absent =>
              /\ tables.error = "none"
              /\ \A n \in 1..2 :
                   /\ PerformanceRowAsExpected(n)
                   /\ data.formations = <<>> => tables.performance[n][3] = None
                   /\ data.xgfixture = <<>> => tables.performance[n][6] = None
                   /\ \A h \in 1..2 :
                        Hits(data.scores, ByHalfAndSide(Halves[h], Sides[n])) = {}
                            => tables.performance[n][3 + h] = None

\* What fixture_table does on a record with both participants: it raises
\* exactly when formations is non-empty without a home entry or xgfixture is
\* non-empty without an entry of one side, and every row it returns shows
\* the first matching entries' values, null where there is none.
FixtureTableErrorCases ==
    (table_pc = "done" /\ HasBothSides(data)) =>
        /\ tables.error = "KeyError" <=>
              \/ data.formations # <<>> /\ Hits(data.formations, BySide("home")) = {}
              \/ data.xgfixture # <<>> /\ \E s \in {"home", "away"} :
                                             Hits(data.xgfixture, BySide(s)) = {}
        /\ tables.error = "none" =>
              /\ Len(tables.fixture) = 7
              /\ Len(tables.performance) = 2
              /\ \A n \in 1..2 : PerformanceRowAsExpected(n)

\* C6: dict_lookup returns the entry at the least place of the list meeting
\* every condition, and the empty object when there is none; the goals
\* columns fixture_table reports are those of the earliest matching scores
\* entry.
C6_FirstMatchLookup ==
    table_pc \in {"ready", "done"} =>
        /\ \A s \in {"home", "away"} :
             /\ IsFirstMatch(DictLookup(data.participants, BySide(s)),
                             data.participants, BySide(s))
             /\ IsFirstMatch(DictLookup(data.formations, BySide(s)),
                             data.formations, BySide(s))
             /\ \A h \in {"1ST_HALF", "2ND_HALF"} :
                  IsFirstMatch(DictLookup(data.scores, ByHalfAndSide(h, s)),
                               data.scores, ByHalfAndSide(h, s))
        /\ (table_pc = "done" /\ tables.error = "none") =>
             \A n \in 1..2 : \A h \in 1..2 :
                tables.performance[n][3 + h] =
                    FirstValue(data.scores, ByHalfAndSide(Halves[h], Sides[n]),
                               "score", "goals")

C6_Witness ==
    /\ table_pc = "done"
    /\ tables.error = "none"
    /\ Len(data.scores) = 3
    /\ data.scores[1].description = "1ST_HALF" /\ data.scores[1].participant = "away"
    /\ data.scores[2] = UnnestRow(ScoreEntry("1ST_HALF", "home", "2"))
    /\ data.scores[3] = UnnestRow(ScoreEntry("1ST_HALF", "home", "1"))
    /\ tables.performance[1][4] = "2"
    /\ DOMAIN DictLookup(data.scores, ByHalfAndSide("2ND_HALF", "home")) = {}

(***************************************************************************)
(* Claims about remove_duplicates (SpecDedupe) and the table file          *)
(* (SpecFile).                                                             *)
(***************************************************************************)

\* The place of x's first occurrence in seq.
FirstPlace(seq, x) ==
    CHOOSE i \in 1..Len(seq) : seq[i] = x /\ \A j \in 1..(i - 1) : seq[j] # x

Elements(seq) == {seq[i] : i \in 1..Len(seq)}

\* out holds every distinct element of in exactly once, in the order of the
\* elements' first occurrences in in.
IsFirstOccurrences(out, in) ==
    /\ Elements(out) = Elements(in)
    /\ \A i, j \in 1..Len(out) : i < j => out[i] # out[j]
    /\ \A i, j \in 1..Len(out) : i < j => FirstPlace(in, out[i]) < FirstPlace(in, out[j])

\* C7: after remove_duplicates the file's lines are the first occurrences of
\* the distinct lines of the content it started from, in their order, and
\* every further run leaves the file as the first run left it.
C7_DedupeIdempotent ==
    \A k \in 2..Len(dedupe_log) :
        /\ IsFirstOccurrences(ReadLines(dedupe_log[k]), ReadLines(dedupe_log[1]))
        /\ dedupe_log[k] = dedupe_log[2]
        /\ k = Len(dedupe_log) => file = dedupe_log[k]

\* Run twice on a\r\n, b\n, a\n: the third line goes, the two runs agree.
C7_Witness ==
    /\ Len(dedupe_log) = 3
    /\ Len(dedupe_log[1]) = 3
    /\ dedupe_log[1][1] = [text |-> <<"a">>, end |-> "\r\n"]
    /\ dedupe_log[1][2].text = <<"b">>
    /\ dedupe_log[1][3] = [text |-> <<"a">>, end |-> "\n"]
    /\ Len(dedupe_log[2]) = 2
    /\ file = dedupe_log[2]

\* The lines of the rows ever handed to write_data, as the file is read.
AppendedLines == {ReadLines(<<CsvLine(r)>>)[1] : r \in appended}

\* C8: after appends that were each followed by the dedupe, the file holds
\* no line twice, its lines are exactly the lines of all rows ever appended,
\* earlier calls included, and each line stands where it first occurred:
\* the lines present before the last call come first, unmoved, followed by
\* the last call's new lines in the order of their first occurrence.
C8_FileIsDedupedUnionOfAppends ==
    file_exists =>
        /\ \A i, j \in 1..Len(file) : i < j => ReadLines(file)[i] # ReadLines(file)[j]
        /\ Elements(ReadLines(file)) = AppendedLines
        /\ IsFirstOccurrences(
              ReadLines(file),
              ReadLines(prev_file) \o
                  [i \in 1..Len(RowsOf(batch)) |-> ReadLines(<<CsvLine(RowsOf(batch)[i])>>)[1]])

\* A second call re-appends a row of the first call together with a new row.
C8_Witness ==
    /\ file_exists
    /\ Len(prev_file) = 2
    /\ batch.nested
    /\ batch.data = <<<<"4", "z">>, <<"1", None>>>>
    /\ <<"1", "">> \in appended
    /\ <<"1", None>> \in appended
    /\ <<"2", "x">> \in appended
    /\ Len(file) = 3
    /\ file[1].text = <<"2", "x">>
    /\ file[2].text = <<"1", "">>
    /\ file[3].text = <<"4", "z">>

(***************************************************************************)
(* Claims about the enricher (SpecEnrich) and the lookup cache             *)
(* (SpecLookup).                                                           *)
(***************************************************************************)

\* The non-null type codes of record d: of its statistics, its events (type
\* and subtype), its lineup details and its lineup entries (type, position).
TypeCodes(d) ==
    LET players == {d.lineups[i] : i \in 1..Len(d.lineups)}
        events  == {d.events[i] : i \in 1..Len(d.events)}
    IN  ({d.statistics[i].type_id : i \in 1..Len(d.statistics)}
         \cup {e.type_id : e \in events}
         \cup {e.sub_type_id : e \in events}
         \cup UNION {{p.details[i].type_id : i \in 1..Len(p.details)} : p \in players}
         \cup {p.type_id : p \in players}
         \cup {p.position_id : p \in players}) \ {NoneId}

\* entry carries the store's name of its type code in the field type.
HasTypeName(entry) ==
    /\ "type" \in DOMAIN entry
    /\ entry.type = TYPES_LOOKUP[entry.type_id[1]]

\* C9: enrichment raises the missing-key error exactly when some non-null
\* type code of the record is not a key of the store, and when it raises
\* nothing every statistic, event and lineup detail carries in type the
\* store's name of its type_id, the type_id itself kept.
C9_TypeNamesSetOrMissingKeyError ==
    enrich_pc = "done" =>
        /\ (\E c \in TypeCodes(game) : c[1] \notin DOMAIN TYPES_LOOKUP)
               <=> enrich_err = "KeyError"
        /\ enrich_err = "none" =>
             /\ \A i \in 1..Len(game.statistics) : HasTypeName(game.statistics[i])
             /\ \A i \in 1..Len(game.events) : HasTypeName(game.events[i])
             /\ \A p \in 1..Len(game.lineups) :
                  \A i \in 1..Len(game.lineups[p].details) :
                     HasTypeName(game.lineups[p].details[i])

\* The store {10: "Shots"} and a record whose only codes are 10.
C9_Witness ==
    /\ enrich_pc = "done"
    /\ enrich_err = "none"
    /\ DOMAIN TYPES_LOOKUP = {10}
    /\ TYPES_LOOKUP[10] = "Shots"
    /\ Len(game.statistics) = 2
    /\ game.statistics[1] = [type_id |-> <<10>>, type |-> "Shots"]
    /\ Len(game.events) = 1
    /\ game.events[1].type = "Shots"
    /\ Len(game.lineups) = 1
    /\ game.lineups[1].details[1].type = "Shots"

\* The same store and a statistic of code 20: the call raises.
C9_WitnessMissingKey ==
    /\ enrich_pc = "done"
    /\ enrich_err = "KeyError"
    /\ DOMAIN TYPES_LOOKUP = {10}
    /\ game.statistics = <<[type_id |-> <<10>>, type |-> "Shots"], [type_id |-> <<20>>]>>

\* C10: the mapping read back from the cache has the integer keys of the
\* mapping that was written, and under each key the name written for it.
C10_LookupRoundTrip ==
    lookup_pc = "read" =>
        /\ \A k \in DOMAIN TYPES_LOOKUP : k \in Int
        /\ DOMAIN TYPES_LOOKUP = DOMAIN written
        /\ \A k \in DOMAIN written : TYPES_LOOKUP[k] = written[k]

C10_Witness ==
    /\ lookup_pc = "read"
    /\ DOMAIN written = {0 - 5, 0, 10, 118}
    /\ lookup_file = {<< <<"-", "5">>, "Goal">>, << <<"0">>, "Shots">>,
                      << <<"1", "0">>, "Shots">>, << <<"1", "1", "8">>, "Goal">>}
    /\ TYPES_LOOKUP[0 - 5] = "Goal"
    /\ TYPES_LOOKUP[118] = "Goal"
    /\ TYPES_LOOKUP[10] = "Shots"

(***************************************************************************)
(* Claims about the table builders and output_data_table (checked under    *)
(* SpecOutput).                                                            *)
(***************************************************************************)

\* The number of columns a row of the named table is to have; players is the
\* number for the players table (the table the code names squad_players).
Columns(name, players) ==
    CASE name = "fixture" -> 7
      [] name = "performance" -> 7
      [] name = "events" -> 14
      [] name = "player_performance" -> 5
      [] name = "squad_players" -> players

\* Every row the last builder call returned has its table's column count.
RowsHaveColumns(players) ==
    \A k \in 1..Len(fixture.tables) :
        LET t == fixture.tables[k]
        IN  /\ t.name \in {"fixture", "performance", "events",
                           "player_performance", "squad_players"}
            /\ IF t.name = "fixture" THEN Len(t.data) = Columns(t.name, players)
               ELSE \A i \in 1..Len(t.data) : Len(t.data[i]) = Columns(t.name, players)

\* C11: every row a table builder emits has the fixed column count of its
\* table kind: fixture rows 7 columns, performance rows 7, events rows 14,
\* player_performance rows 5 and players rows 11.
C11_FixedColumnCounts == RowsHaveColumns(11)

\* C11 as the code has it: every row a table builder emits has the fixed
\* column count of its table kind: fixture rows 7 columns, performance rows
\* 7, events rows 14, player_performance rows 5 and players rows 12 (the
\* twelve values the players table lists, the image path last).
C11_FixedColumnCountsTwelve ==
    /\ RowsHaveColumns(12)
    /\ \A k \in 1..Len(fixture.tables) :
          fixture.tables[k].name = "squad_players" =>
              \A i \in 1..Len(fixture.tables[k].data) :
                  fixture.tables[k].data[i][12] = "img/77.png"

\* players_table returned the three roster players of the two teams.
C11_Witness ==
    /\ fixture.function = "players_table"
    /\ fixture.error = "none"
    /\ Len(fixture.tables) = 1
    /\ fixture.tables[1].name = "squad_players"
    /\ Len(fixture.tables[1].data) = 3
    /\ Len(fixture.tables[1].data[3]) = 12
    /\ fixture.tables[1].data[1][1] = "501"
    /\ fixture.tables[1].data[1][5] = "United States"
    /\ fixture.tables[1].data[2][5] = None

\* C12: each table builder is a pure function of the record: after any
\* calls the record, every nested participant, score and xgfixture entry
\* included, is as it was handed over, and what the last call returned (or
\* raised) is what the builder returns on the record as handed over,
\* whatever builders ran before it.
C12_BuildersLeaveRecordUnchanged ==
    calls > 0 =>
        /\ game = handed
        /\ fixture.error = Build(fixture.function, handed).error
        /\ fixture.tables = Build(fixture.function, handed).tables

\* What holds of the builders' results: whatever builders ran before, the
\* last call returned (or raised) what the builder returns on the record as
\* it was handed over.
BuildersAgreeInAnyOrder ==
    calls > 0 =>
        /\ fixture.error = Build(fixture.function, handed).error
        /\ fixture.tables = Build(fixture.function, handed).tables

\* The lines the rows of a returned table value are written as.
LinesOf(t) ==
    LET rows == IF t.name = "fixture" THEN <<t.data>> ELSE t.data
    IN  [i \in 1..Len(rows) |-> CsvLine(rows[i])]

\* The file of the last call's output directory named after table t.
FileOf(t) == <<fixture.output_directory, "/", t.name, ".csv">>

\* The file name has the same state, absent or its lines, as before the call.
Untouched(name) ==
    /\ name \in DOMAIN files <=> name \in DOMAIN prev_files
    /\ name \in DOMAIN files => files[name] = prev_files[name]

\* C13: after a call of output_data_table whose builder returned, every
\* returned table with rows has its rows appended to the file named after it
\* in the output directory (the file then deduplicated when duplicate_remove
\* is set), every file named after a returned table without rows is as it
\* was, not created when it did not exist, and so is every other file.
C13_OutputWritesNonEmptyTablesOnly ==
    (calls > 0 /\ fixture.error = "none") =>
        LET tbls == {fixture.tables[k] : k \in 1..Len(fixture.tables)}
        IN  /\ \A t \in tbls :
                 IF Len(t.data) > 0
                 THEN /\ FileOf(t) \in DOMAIN files
                      /\ files[FileOf(t)] =
                            IF fixture.duplicate_remove
                            THEN RemoveDuplicates(Content(prev_files, FileOf(t)) \o LinesOf(t))
                            ELSE Content(prev_files, FileOf(t)) \o LinesOf(t)
                 ELSE Untouched(FileOf(t))
            /\ \A name \in (DOMAIN files) \cup (DOMAIN prev_files) :
                 (\A t \in tbls : name # FileOf(t)) => Untouched(name)

\* event_table wrote two rows to database/events.csv; the call of
\* player_performance_table that followed returned no rows and left the
\* directory with that one file.
C13_Witness ==
    /\ calls = 2
    /\ fixture.function = "player_performance_table"
    /\ fixture.error = "none"
    /\ fixture.output_directory = "database"
    /\ fixture.duplicate_remove
    /\ Len(fixture.tables) = 1
    /\ fixture.tables[1].name = "player_performance"
    /\ fixture.tables[1].data = <<>>
    /\ DOMAIN files = {<<"database", "/", "events", ".csv">>}
    /\ Len(files[<<"database", "/", "events", ".csv">>]) = 2
    /\ files[<<"database", "/", "events", ".csv">>][1].text[2] = "901"
    /\ files = prev_files

\* The number of details of the lineup entries before entry p.
DetailsBefore(d, p) ==
    LET count[q \in 0..Len(d.lineups)] ==
            IF q = 0 THEN 0 ELSE count[q - 1] + Len(d.lineups[q].details)
    IN  count[p - 1]

\* rows holds one row per detail, in lineup order then detail order, the row
\* of detail i of entry p being Row(p, i), given as the sequence of the
\* entries' sequences of rows.
IsRowPerDetail(rows, d, expected) ==
    /\ Len(rows) = DetailsBefore(d, Len(d.lineups) + 1)
    /\ \A p \in 1..Len(d.lineups) : \A i \in 1..Len(d.lineups[p].details) :
           rows[DetailsBefore(d, p) + i] = expected[p][i]

\* C15: player_performance_table returns one row per detail entry of each
\* lineup entry, in lineup order then detail order, each row being
\* [player_id, fixture_id, team_id, detail type name, detail data.value] with
\* the player_id and team_id of the lineup entry that owns the detail and the
\* record's id, for lineup entries carrying player_id and team_id and details
\* carrying type_id and data.value (and the type name the enricher added).
C15_RowPerDetailOfOwningEntry ==
    fixture.function = "player_performance_table" =>
        /\ fixture.error = "none"
        /\ Len(fixture.tables) = 1
        /\ IsRowPerDetail(fixture.tables[1].data, game,
              [p \in 1..Len(game.lineups) |->
                  [i \in 1..Len(game.lineups[p].details) |->
                      <<game.lineups[p].player_id, game.id, game.lineups[p].team_id,
                        game.lineups[p].details[i].type,
                        game.lineups[p].details[i].data.value>>]])

\* C15 as the code has it: the first three columns are read from the detail
\* entry itself.  When every detail carries player_id, fixture_id and team_id
\* of its own, player_performance_table returns one row per detail, in
\* lineup order then detail order, each [detail player_id, detail fixture_id,
\* detail team_id, detail type name, detail data.value], and no row for an
\* entry without details; when some detail lacks one of the three (it holds
\* only type_id, type and data.value) the call raises the missing-key error.
C15_RowPerDetailReadFromDetail ==
    fixture.function = "player_performance_table" =>
        LET bare == \E p \in 1..Len(game.lineups) :
                        \E i \in 1..Len(game.lineups[p].details) :
                            ~({"player_id", "fixture_id", "team_id"}
                                  \subseteq DOMAIN game.lineups[p].details[i])
        IN  /\ bare <=> fixture.error = "KeyError"
            /\ bare \/ fixture.error = "none"
            /\ ~bare =>
                 /\ Len(fixture.tables) = 1
                 /\ fixture.tables[1].name = "player_performance"
                 /\ IsRowPerDetail(fixture.tables[1].data, game,
                       [p \in 1..Len(game.lineups) |->
                           [i \in 1..Len(game.lineups[p].details) |->
                               LET deet == game.lineups[p].details[i]
                               IN  <<deet.player_id, deet.fixture_id, deet.team_id,
                                     deet.type, deet.data.value>>]])

\* Entries with two details, none and one give three rows.
C15_Witness ==
    /\ fixture.function = "player_performance_table"
    /\ fixture.error = "none"
    /\ Len(game.lineups) = 3
    /\ Len(game.lineups[1].details) = 2
    /\ Len(game.lineups[2].details) = 0
    /\ Len(game.lineups[3].details) = 1
    /\ fixture.tables[1].data =
          << <<"77", "19051563", "10", "Shots", "3">>,
             <<"77", "19051563", "10", "Goal", "1">>,
             <<"77", "19051563", "10", "Shots", "2">> >>

(***************************************************************************)
(* The claim about fixture_lineup_lookups (checked under SpecLineup).      *)
(***************************************************************************)

\* The code is not null and has no name in the store.
Unnamed(code) == code # <<>> /\ code[1] \notin DOMAIN TYPES_LOOKUP

\* The name the entry is to show for a code: "N/A" for null.
NameOrNA(code) == IF code = <<>> THEN "N/A" ELSE TYPES_LOOKUP[code[1]]

\* The step from a record to the record fixture_lineup_lookups leaves: it
\* raises exactly when some entry has a non-null type_id or position_id
\* without a name; otherwise every entry keeps all its fields, type_id and
\* position_id included, and gains lineup_type and position.
LineupNamesAdded ==
    /\ enrich_err' = "KeyError" <=>
           \E i \in 1..Len(game.lineups) :
               Unnamed(game.lineups[i].type_id) \/ Unnamed(game.lineups[i].position_id)
    /\ enrich_err' \in {"none", "KeyError"}
    /\ enrich_err' = "none" =>
         /\ Len(game'.lineups) = Len(game.lineups)
         /\ \A i \in 1..Len(game.lineups) :
              LET old == game.lineups[i]
                  new == game'.lineups[i]
              IN  /\ DOMAIN new = (DOMAIN old) \cup {"lineup_type", "position"}
                  /\ \A k \in DOMAIN old : new[k] = old[k]
                  /\ new.type_id = old.type_id
                  /\ new.position_id = old.position_id
                  /\ new.lineup_type = NameOrNA(old.type_id)
                  /\ new.position = NameOrNA(old.position_id)

\* C14: for every lineup entry fixture_lineup_lookups adds lineup_type and
\* position and leaves type_id and position_id (and every other field) as
\* they were; a null type_id gives lineup_type "N/A", a null position_id
\* position "N/A", without raising; a non-null code that is no key of the
\* store raises the missing-key error.
C14_LineupNamesAddedNullAsNA == [][FixtureLineupLookupsCall => LineupNamesAdded]_vars

\* One entry with a null position, one with a null type.
C14_Witness ==
    /\ enrich_pc = "done"
    /\ enrich_err = "none"
    /\ Len(game.lineups) = 2
    /\ "type" \notin DOMAIN game.lineups[1].details[1]
    /\ game.lineups[1].type_id = <<10>>
    /\ game.lineups[1].lineup_type = "Shots"
    /\ game.lineups[1].position_id = <<>>
    /\ game.lineups[1].position = "N/A"
    /\ game.lineups[2].type_id = <<>>
    /\ game.lineups[2].lineup_type = "N/A"
    /\ game.lineups[2].position_id = <<20>>
    /\ game.lineups[2].position = "Goal"

(***************************************************************************)
(* The claim about download_fixtures_date_range (checked under             *)
(* SpecDownload).                                                          *)
(***************************************************************************)

\* The lines of file name as they are read.
LinesIn(name) == Elements(ReadLines(Content(files, name)))

\* Every row the three builders return for the record d stands in the file
\* of its table in the database directory.
RowsWritten(d) ==
    \A k \in 1..Len(DownloadBuilders) :
        LET out == Build(DownloadBuilders[k], d)
        IN  /\ out.error = "none"
            /\ \A n \in 1..Len(out.tables) :
                 \A i \in 1..Len(LinesOf(out.tables[n])) :
                    ReadLines(<<LinesOf(out.tables[n])[i]>>)[1]
                        \in LinesIn(<<"database", "/", out.tables[n].name, ".csv">>)

RECURSIVE FailedIds(_)
\* The ids of the attempts that ended in an error, in order.
FailedIds(log) ==
    IF log = <<>> THEN <<>>
    ELSE (IF Head(log).error = "none" THEN <<>> ELSE <<Head(log).id>>)
             \o FailedIds(Tail(log))

\* The loop has attempted the first taken fixtures of the result, each once
\* and in result order; each ended as it ends when processed alone; the ids
\* of those that failed were printed, in order; the rows of those that did
\* not fail are in the files.
AttemptedInOrder ==
    /\ taken <= Len(fetched)
    /\ Len(attempts) = taken
    /\ \A i \in 1..taken :
         /\ attempts[i].id = fetched[i].id
         /\ attempts[i].error = TryFixture(fetched[i], NoFiles).error
         /\ attempts[i].error = "none" => RowsWritten(games[i])
    /\ \A i \in (taken + 1)..Len(fetched) : games[i] = fetched[i]
    /\ Len(printed) = Len(FailedIds(attempts))
    /\ \A i \in 1..Len(printed) :
         printed[i] = <<"Error on fixture: ", FailedIds(attempts)[i]>>

\* A pass of the loop, failed or not, takes exactly the next fixture of the
\* result and leaves the loop at the fixture after it.
LoopTakesNext ==
    /\ taken' = taken + 1
    /\ Len(attempts') = Len(attempts) + 1
    /\ attempts'[taken + 1].id = fetched[taken + 1].id
    /\ attempts'[taken + 1].error # "none" =>
           printed' = Append(printed, <<"Error on fixture: ", fetched[taken + 1].id>>)
    /\ attempts'[taken + 1].error = "none" => printed' = printed

\* C16: in download_fixtures_date_range a failure while enriching or
\* flattening a fixture is caught and the fixture's id printed, and the loop
\* goes on with the next fixture: every pass takes the next fixture of the
\* fetched result, so that the fixtures are attempted exactly once each, in
\* result order, whatever became of the fixtures before them, and the rows
\* of each fixture that does not fail are written.
C16_FailuresCaughtLoopContinues == []AttemptedInOrder /\ [][LoopTakesNext]_vars

\* Fixture 6 fails in player_performance_table after its fixture and events
\* rows were written; fixture 1, after it, goes through.
C16_Witness ==
    /\ taken = 2
    /\ Len(fetched) = 2
    /\ attempts = <<[id |-> "6", error |-> "KeyError"], [id |-> "1", error |-> "none"]>>
    /\ printed = << <<"Error on fixture: ", "6">> >>
    /\ DOMAIN files = {<<"database", "/", "fixture", ".csv">>,
                       <<"database", "/", "performance", ".csv">>,
                       <<"database", "/", "events", ".csv">>,
                       <<"database", "/", "player_performance", ".csv">>}
    /\ Len(files[<<"database", "/", "fixture", ".csv">>]) = 2
    /\ files[<<"database", "/", "fixture", ".csv">>][1].text[1] = "6"
    /\ files[<<"database", "/", "fixture", ".csv">>][2].text[1] = "1"
    /\ Len(files[<<"database", "/", "player_performance", ".csv">>]) = 1
    /\ games[2].lineups[1].details[1].type = "Shots"

====
